---- MODULE Spec2Model ----
(***************************************************************************)
(* State-machine model of ddb_util (src/src/lib.rs): set_kv, get_item and  *)
(* batch_write_items over a DynamoDB client.  The client is the            *)
(* environment: each RPC either fails or answers with a response of the    *)
(* shape the rusoto structs allow.                                         *)
(***************************************************************************)
EXTENDS Integers, Sequences, FiniteSets, Bags, TLC

VARIABLES
    table,          \* batch_write_items: argument `table`
    write_items,    \* batch_write_items: argument `write_items`  (Option<Vec<DdbMap>>)
    delete_items,   \* batch_write_items: argument `delete_items` (Option<Vec<DdbMap>>)
    pc,             \* position of the batch_write_items future
    it,             \* what is left of v.into_iter() (line 162)
    vector,         \* local `vector` (line 160)
    inflight,       \* BatchWriteItemInput values submitted and not yet answered
    sent,           \* history: every BatchWriteItemInput submitted, in order
    responses,      \* history: every BatchWriteItemOutput received, in order
    committed,      \* backend: bag of the write requests it applied
    failed,         \* history: 1-based index of the chunk whose RPC failed, 0 if none
    outcome,        \* how the call ended: "Pending", "Returned" or "Panic"
    result,         \* the Vec<WriteRequest> returned (line 177)
    gpc,            \* position of the get_item future
    gkey,           \* get_item: argument `key`
    gstored,        \* backend: the item stored under gkey (Option<DdbMap>)
    gresponse,      \* history: "none", or how the GetItem RPC answered: "Ok" or "Err"
    goutcome,       \* how get_item ended: "Pending", "Returned" or "Panic"
    gvalue,         \* the value get_item returned (Option<T>, None while pending)
    item,           \* set_kv: the map behind `item: &mut HashMap`
    calls           \* history: the set_kv calls made: [before, key, val]

bwvars == <<table, write_items, delete_items, pc, it, vector, inflight, sent,
            responses, committed, failed, outcome, result>>
gvars == <<gpc, gkey, gstored, gresponse, goutcome, gvalue>>
kvvars == <<item, calls>>
vars == <<bwvars, gvars, kvvars>>

----------------------------------------------------------------------------
(* Bounds of the model.                                                    *)
MaxDel == 2        \* longest delete_items
MaxPut == 49       \* longest write_items
NumItems == 30     \* distinct record maps the caller draws items from
MaxCalls == 2      \* set_kv calls in a row

(* itertools' chunk size, the backend's per-request limit (line 162).      *)
ChunkSize == 25

Tables == {"relations", "other"}

----------------------------------------------------------------------------
(* Option<T>: None is the empty sequence, Some(x) the one-element one.     *)
None == <<>>
Some(x) == <<x>>
IsSome(o) == o # <<>>
Unwrap(o) == o[1]

Min(a, b) == IF a < b THEN a ELSE b
Take(s, n) == SubSeq(s, 1, Min(n, Len(s)))
Range(s) == {s[i] : i \in DOMAIN s}
SeqToBag(s) == [e \in Range(s) |-> Cardinality({i \in DOMAIN s : s[i] = e})]

(* The record maps a caller passes: the i-th element of a list of n is     *)
(* record map number ((i-1) mod NumItems)+1, so long lists repeat items.   *)
Items(n) == [i \in 1..n |-> ((i - 1) % NumItems) + 1]

----------------------------------------------------------------------------
(* WriteRequest values as create_write_request builds them.                *)
DeleteWriteRequest(x) ==
    [delete_request |-> Some([key |-> x]), put_request |-> None]

PutWriteRequest(x) ==
    [delete_request |-> None, put_request |-> Some([item |-> x])]

PutsThenDeletes(wi, di) ==
    (IF IsSome(wi) THEN [i \in DOMAIN Unwrap(wi) |-> PutWriteRequest(Unwrap(wi)[i])]
                   ELSE <<>>)
    \o (IF IsSome(di) THEN [i \in DOMAIN Unwrap(di) |-> DeleteWriteRequest(Unwrap(di)[i])]
                      ELSE <<>>)

create_write_request(wi, di) ==
    LET dwr == IF IsSome(di)
               THEN [i \in DOMAIN Unwrap(di) |-> DeleteWriteRequest(Unwrap(di)[i])]
               ELSE <<>>
    IN  IF IsSome(wi)
        THEN dwr \o [i \in DOMAIN Unwrap(wi) |-> PutWriteRequest(Unwrap(wi)[i])]
        ELSE dwr

(* itertools chunks(25): whether the iterator yields another chunk, the    *)
(* chunk it yields, and what is left of the iterator afterwards.           *)
HasNextOrFirst(s, n) == s # <<>> \/ n = 0

HasNextChunk(s, n) == s # <<>>

TakeOneMore(s) == Take(s, ChunkSize + 1)

NextChunk(s) == Take(s, ChunkSize)

RestKeepingLast(s, c) == SubSeq(s, Min(Len(c), Len(s)), Len(s))

RestAfter(s, c) == SubSeq(s, Len(c) + 1, Len(s))

(* BatchWriteItemInput { request_items: {table -> c}, ..Default }          *)
BatchWriteItemInput(t, c) == [request_items |-> (t :> c)]

(* Lines 171-175: extend `vector` by the response's entry for `table`.     *)
AggregateAnyTable(vec, res, t) ==
    IF IsSome(res.unprocessed_items)
    THEN LET m == Unwrap(res.unprocessed_items)
         IN  IF DOMAIN m # {} THEN vec \o m[CHOOSE k \in DOMAIN m : TRUE] ELSE vec
    ELSE vec

AggregateReplace(vec, res, t) ==
    IF IsSome(res.unprocessed_items)
    THEN LET m == Unwrap(res.unprocessed_items)
         IN  IF t \in DOMAIN m THEN m[t] ELSE vec
    ELSE vec

AggregateUnprocessed(vec, res, t) ==
    IF IsSome(res.unprocessed_items)
    THEN LET m == Unwrap(res.unprocessed_items)
         IN  IF t \in DOMAIN m THEN vec \o m[t] ELSE vec
    ELSE vec

----------------------------------------------------------------------------
(* The backend.  A response's unprocessed_items is None, or an empty map,  *)
(* or a map with an entry for another table only, or a map naming the      *)
(* table of the request with a list: any ordering of any subset of the     *)
(* request's operations at DeclineCandidates, or (a backend that           *)
(* misreports) an operation that was not in the request.                   *)
DeclinePositions == {3, 17}

DeclineCandidates(c) ==
    IF DeclinePositions \cap DOMAIN c = {} THEN {1} \cap DOMAIN c
    ELSE DeclinePositions \cap DOMAIN c

ForeignOp == PutWriteRequest(NumItems + 1)

Orderings(S) ==
    UNION {{f \in [1..Cardinality(T) -> T] : Range(f) = T} : T \in SUBSET S}

RequestTable(input) == CHOOSE t \in DOMAIN input.request_items : TRUE

NoEntries == [t \in {} |-> <<>>]

BatchWriteItemOutputs(input) ==
    LET t == RequestTable(input)
        c == input.request_items[t]
        lists == {[i \in DOMAIN o |-> c[o[i]]] : o \in Orderings(DeclineCandidates(c))}
                 \cup {<<ForeignOp>>}
    IN  {[unprocessed_items |-> None], [unprocessed_items |-> Some(NoEntries)]}
        \cup {[unprocessed_items |-> Some(o :> <<ForeignOp>>)] : o \in Tables \ {t}}
        \cup {[unprocessed_items |-> Some(t :> l)] : l \in lists}

(* What the backend applies of a request: everything it does not report    *)
(* as unprocessed for the request's table.                                 *)
Applied(input, res) ==
    LET t == RequestTable(input)
        declined == IF IsSome(res.unprocessed_items)
                       /\ t \in DOMAIN Unwrap(res.unprocessed_items)
                    THEN Unwrap(res.unprocessed_items)[t]
                    ELSE <<>>
    IN  SeqToBag(input.request_items[t]) (-) SeqToBag(declined)

----------------------------------------------------------------------------
(* batch_write_items                                                       *)
OptionalItemLists(max) == {None} \cup {Some(Items(n)) : n \in 0..max}

InitBatchWrite ==
    /\ table \in Tables
    /\ write_items \in OptionalItemLists(MaxPut)
    /\ delete_items \in OptionalItemLists(MaxDel)
    /\ pc = "start"
    /\ it = <<>>
    /\ vector = <<>>
    /\ inflight = <<>>
    /\ sent = <<>>
    /\ responses = <<>>
    /\ committed = EmptyBag
    /\ failed = 0
    /\ outcome = "Pending"
    /\ result = <<>>

IdleBatchWrite ==
    /\ table = "relations"
    /\ write_items = None
    /\ delete_items = None
    /\ pc = "idle"
    /\ it = <<>>
    /\ vector = <<>>
    /\ inflight = <<>>
    /\ sent = <<>>
    /\ responses = <<>>
    /\ committed = EmptyBag
    /\ failed = 0
    /\ outcome = "Pending"
    /\ result = <<>>

(* Lines 160-161: vector = Vec::new(); v = create_write_request(..).       *)
Start ==
    /\ pc = "start"
    /\ it' = create_write_request(write_items, delete_items)
    /\ vector' = <<>>
    /\ pc' = "loop"
    /\ UNCHANGED <<table, write_items, delete_items, inflight, sent, responses,
                   committed, failed, outcome, result>>
    /\ UNCHANGED <<gvars, kvvars>>

(* Lines 162-170 up to the await: take the next chunk, build the input     *)
(* and submit it.                                                          *)
SubmitBody ==
    /\ HasNextChunk(it, Len(sent))
    /\ LET c == NextChunk(it)
           input == BatchWriteItemInput(table, c)
       IN  /\ it' = RestAfter(it, c)
           /\ inflight' = Append(inflight, input)
           /\ sent' = Append(sent, input)
    /\ pc' = "await"
    /\ UNCHANGED <<table, write_items, delete_items, vector, responses,
                   committed, failed, outcome, result>>
    /\ UNCHANGED <<gvars, kvvars>>

SubmitWithoutAwaiting ==
    /\ pc \in {"loop", "await"}
    /\ SubmitBody

SubmitChunk ==
    /\ pc = "loop"
    /\ SubmitBody

(* Lines 170-175: the RPC answers Ok; its unprocessed entry for `table`    *)
(* is appended to `vector`.                                                *)
ReceiveOk ==
    /\ pc = "await"
    /\ \E res \in BatchWriteItemOutputs(Head(inflight)) :
          /\ vector' = AggregateUnprocessed(vector, res, table)
          /\ responses' = Append(responses, res)
          /\ committed' = committed (+) Applied(Head(inflight), res)
    /\ inflight' = Tail(inflight)
    /\ pc' = IF inflight' = <<>> THEN "loop" ELSE "await"
    /\ UNCHANGED <<table, write_items, delete_items, it, sent, failed, outcome, result>>
    /\ UNCHANGED <<gvars, kvvars>>

(* Line 170: the RPC answers Err and unwrap() panics.                      *)
ReceiveErr ==
    /\ pc = "await"
    /\ failed' = Len(sent) - Len(inflight) + 1
    /\ inflight' = Tail(inflight)
    /\ pc' = "panic"
    /\ outcome' = "Panic"
    /\ UNCHANGED <<table, write_items, delete_items, it, vector, sent, responses,
                   committed, result>>
    /\ UNCHANGED <<gvars, kvvars>>

(* Line 177: the iterator is exhausted; return `vector`.                   *)
Return ==
    /\ pc = "loop"
    /\ ~HasNextChunk(it, Len(sent))
    /\ pc' = "done"
    /\ outcome' = "Returned"
    /\ result' = vector
    /\ UNCHANGED <<table, write_items, delete_items, it, vector, inflight, sent,
                   responses, committed, failed>>
    /\ UNCHANGED <<gvars, kvvars>>

NextBatchWrite == Start \/ SubmitChunk \/ ReceiveOk \/ ReceiveErr \/ Return

----------------------------------------------------------------------------
(* rusoto_dynamodb::AttributeValue: every variant is an Option field.       *)
DefaultAttributeValue ==
    [b |-> None, bool |-> None, bs |-> None, l |-> None, m |-> None,
     n |-> None, ns |-> None, null |-> None, s |-> None, ss |-> None]

EmptyMap == [k \in {} |-> DefaultAttributeValue]

(* Lines 12-23: item.insert(key, AttributeValue { s: Some(val), ..Default }) *)
set_kv_keep_variants(m, key, val) ==
    [k \in DOMAIN m \cup {key} |->
        IF k = key
        THEN IF key \in DOMAIN m THEN [m[key] EXCEPT !.s = Some(val)]
                                 ELSE [DefaultAttributeValue EXCEPT !.s = Some(val)]
        ELSE m[k]]

set_kv(m, key, val) ==
    [k \in DOMAIN m \cup {key} |->
        IF k = key THEN [DefaultAttributeValue EXCEPT !.s = Some(val)] ELSE m[k]]

KvKeys == {"pk", "sk", ":itemtype"}
KvVals == {"c4c", "dataset"}
KvStoredValues ==
    {[DefaultAttributeValue EXCEPT !.s = Some("old")],
     [DefaultAttributeValue EXCEPT !.n = Some("7")],
     [DefaultAttributeValue EXCEPT !.bool = Some(TRUE)]}

InitSetKv ==
    /\ \E D \in SUBSET KvKeys : item \in [D -> KvStoredValues]
    /\ calls = <<>>

IdleSetKv ==
    /\ item = EmptyMap
    /\ calls = <<>>

SetKv ==
    /\ Len(calls) < MaxCalls
    /\ \E key \in KvKeys, val \in KvVals :
          /\ item' = set_kv(item, key, val)
          /\ calls' = Append(calls, [before |-> item, key |-> key, val |-> val])
    /\ UNCHANGED <<bwvars, gvars>>

----------------------------------------------------------------------------
(* get_item, decoding into the tests' Dataset (lines 187-193):             *)
(* pk, sk, itemtype: String; created: Option<u64>.                         *)
ParseU64(str) == CASE str = "7" -> Some(7) [] OTHER -> None

DecodeOk(m) ==
    /\ \A f \in {"pk", "sk", "itemtype"} : f \in DOMAIN m /\ IsSome(m[f].s)
    /\ "created" \in DOMAIN m =>
          /\ IsSome(m["created"].n)
          /\ IsSome(ParseU64(Unwrap(m["created"].n)))

from_hashmap(m) ==
    [pk |-> Unwrap(m["pk"].s), sk |-> Unwrap(m["sk"].s),
     itemtype |-> Unwrap(m["itemtype"].s),
     created |-> IF "created" \in DOMAIN m
                 THEN ParseU64(Unwrap(m["created"].n)) ELSE None]

Keys ==
    {set_kv(set_kv(EmptyMap, "pk", p), "sk", q) : p \in {"c4c", "x"}, q \in {"c4c", "y"}}

(* What the store may hold under a key: nothing, or an item with the key's *)
(* attributes and any of these itemtype / created attributes.              *)
Extras ==
    LET its == {[DefaultAttributeValue EXCEPT !.s = Some("dataset")],
                [DefaultAttributeValue EXCEPT !.n = Some("7")]}
        crs == {[DefaultAttributeValue EXCEPT !.n = Some("7")],
                [DefaultAttributeValue EXCEPT !.n = Some("-1")],
                [DefaultAttributeValue EXCEPT !.s = Some("7")]}
    IN  {EmptyMap}
        \cup {("itemtype" :> a) : a \in its}
        \cup {("created" :> c) : c \in crs}
        \cup {("itemtype" :> a) @@ ("created" :> c) : a \in its, c \in crs}

StoredUnder(key) == {None} \cup {Some(key @@ e) : e \in Extras}

InitGetItem ==
    /\ gpc = "start"
    /\ gkey \in Keys
    /\ gstored \in StoredUnder(gkey)
    /\ gresponse = "none"
    /\ goutcome = "Pending"
    /\ gvalue = None

IdleGetItem ==
    /\ gpc = "idle"
    /\ gkey = EmptyMap
    /\ gstored = None
    /\ gresponse = "none"
    /\ goutcome = "Pending"
    /\ gvalue = None

(* Lines 56-61: build GetItemInput and call client.get_item.               *)
GetItemSend ==
    /\ gpc = "start"
    /\ gpc' = "await"
    /\ UNCHANGED <<gkey, gstored, gresponse, goutcome, gvalue>>
    /\ UNCHANGED <<bwvars, kvvars>>

(* Line 61: the RPC answers Err and the first unwrap() panics.             *)
GetItemErr ==
    /\ gpc = "await"
    /\ gresponse' = "Err"
    /\ gpc' = "panic"
    /\ goutcome' = "Panic"
    /\ UNCHANGED <<gkey, gstored, gvalue>>
    /\ UNCHANGED <<bwvars, kvvars>>

(* Lines 61-62: the RPC answers Ok(GetItemOutput { item: gstored });       *)
(* .item.unwrap() panics on None, from_hashmap(..).unwrap() on a decode    *)
(* error.                                                                  *)
GetItemOk ==
    /\ gpc = "await"
    /\ gresponse' = "Ok"
    /\ IF IsSome(gstored) /\ DecodeOk(Unwrap(gstored))
       THEN /\ gpc' = "done"
            /\ goutcome' = "Returned"
            /\ gvalue' = Some(from_hashmap(Unwrap(gstored)))
       ELSE /\ gpc' = "panic"
            /\ goutcome' = "Panic"
            /\ gvalue' = gvalue
    /\ UNCHANGED <<gkey, gstored>>
    /\ UNCHANGED <<bwvars, kvvars>>

NextGetItem == GetItemSend \/ GetItemErr \/ GetItemOk

----------------------------------------------------------------------------
(* Vocabulary of the properties below, read off the arguments and the      *)
(* histories, not off the loop's own variables.                            *)
ListLen(o) == IF IsSome(o) THEN Len(Unwrap(o)) ELSE 0

InputCount == ListLen(delete_items) + ListLen(write_items)

\* deletes in the order of delete_items, then puts in the order of write_items
ExpectedOps ==
    [i \in 1..InputCount |->
        IF i <= ListLen(delete_items)
        THEN [delete_request |-> Some([key |-> Unwrap(delete_items)[i]]),
              put_request |-> None]
        ELSE [delete_request |-> None,
              put_request |->
                  Some([item |-> Unwrap(write_items)[i - ListLen(delete_items)]])]]

\* the operations request k carries, whatever tables it names
OpsOf(input) ==
    LET m == input.request_items
        F[D \in SUBSET DOMAIN m] ==
            IF D = {} THEN <<>>
            ELSE LET t == CHOOSE t \in D : TRUE IN m[t] \o F[D \ {t}]
    IN  F[DOMAIN m]

SentOpsUpTo[k \in Nat] ==
    IF k = 0 \/ k > Len(sent) THEN <<>> ELSE SentOpsUpTo[k - 1] \o OpsOf(sent[k])

SentOps == SentOpsUpTo[Len(sent)]

\* the list response r names for the called table, empty when it names none
NamedFor(r) ==
    IF r.unprocessed_items = <<>> THEN <<>>
    ELSE IF table \in DOMAIN r.unprocessed_items[1]
         THEN r.unprocessed_items[1][table] ELSE <<>>

NamedUpTo[k \in Nat] ==
    IF k = 0 \/ k > Len(responses) THEN <<>>
    ELSE NamedUpTo[k - 1] \o NamedFor(responses[k])

CeilDiv(a, b) == (a + b - 1) \div b

----------------------------------------------------------------------------
\* C1: when the call returns (no RPC failed) it has issued exactly
\* ceil(M/25) batch-write calls for M = deletes + puts; every call carries at
\* most 25 operations, every call but the last exactly 25, and the last
\* M mod 25 (25 when M is a positive multiple of 25).
C1_ChunkCount ==
    /\ \A k \in DOMAIN sent : Len(OpsOf(sent[k])) <= 25
    /\ outcome = "Returned" =>
          /\ Len(sent) = CeilDiv(InputCount, 25)
          /\ \A k \in 1..(Len(sent) - 1) : Len(OpsOf(sent[k])) = 25
          /\ Len(sent) > 0 =>
                Len(OpsOf(sent[Len(sent)])) =
                    IF InputCount % 25 = 0 THEN 25 ELSE InputCount % 25

C1_Witness ==
    /\ outcome = "Returned"
    /\ InputCount = 51
    /\ Len(sent) = 3
    /\ Len(OpsOf(sent[3])) = 1

\* C2: when the call returns and every response named as unprocessed only
\* operations of the chunk it answered, the bag of committed operations plus
\* the bag of returned operations is the bag of input operations.
HonestBackend ==
    \A k \in DOMAIN responses :
        k <= Len(sent) => SeqToBag(NamedFor(responses[k])) \sqsubseteq SeqToBag(OpsOf(sent[k]))

C2_NoLoss ==
    (outcome = "Returned" /\ HonestBackend) =>
        committed (+) SeqToBag(result) = SeqToBag(ExpectedOps)

C2_Witness ==
    /\ outcome = "Returned"
    /\ HonestBackend
    /\ InputCount > NumItems
    /\ Len(result) = 4
    /\ committed # EmptyBag

\* C3: the chunks submitted so far, concatenated in submission order, are a
\* prefix of <deletes in order, then puts in order>, what is left to submit is
\* the rest of it, and on return the concatenation is that whole sequence.
C3_DeletesThenPutsPositional ==
    /\ SentOps = SubSeq(ExpectedOps, 1, Len(SentOps))
    /\ pc \in {"loop", "await", "done", "panic"} => SentOps \o it = ExpectedOps
    /\ outcome = "Returned" => SentOps = ExpectedOps

C3_Witness ==
    /\ outcome = "Returned"
    /\ delete_items = <<(<<1, 2>>)>>
    /\ write_items = <<(<<1>>)>>
    /\ SentOps = <<DeleteWriteRequest(1), DeleteWriteRequest(2), PutWriteRequest(1)>>

\* C4: the returned value is the concatenation, in the order the responses
\* arrived, of the lists the responses name for the called table; a response
\* with no map or no entry for the table adds nothing.  With 40 operations,
\* a first response naming op 3 and op 17 and a second naming none, the
\* value is <<op 3, op 17>> after two calls.
C4_ReturnsNamedUnprocessed ==
    outcome = "Returned" =>
        /\ result = NamedUpTo[Len(responses)]
        /\ Len(responses) = Len(sent)
        /\ (/\ InputCount = 40
            /\ responses[1].unprocessed_items
                  = <<(table :> <<ExpectedOps[3], ExpectedOps[17]>>)>>
            /\ responses[2].unprocessed_items = <<>>)
           => (result = <<ExpectedOps[3], ExpectedOps[17]>> /\ Len(sent) = 2)

C4_Witness ==
    /\ outcome = "Returned"
    /\ InputCount = 40
    /\ Len(sent) = 2
    /\ responses[1].unprocessed_items = <<(table :> <<ExpectedOps[3], ExpectedOps[17]>>)>>
    /\ responses[2].unprocessed_items = <<>>
    /\ result = <<ExpectedOps[3], ExpectedOps[17]>>

\* C5: when the RPC of chunk k fails the call ends in a recoverable
\* RemoteStoreError that carries k; no later chunk is submitted and what the
\* earlier chunks committed stays committed.
C5_RemoteStoreError ==
    failed # 0 =>
        /\ outcome = "RemoteStoreError"
        /\ Len(sent) = failed
        /\ inflight = <<>>

\* C7: no retry: each input operation is sent at most as often as the input
\* holds it (exactly as often on return), and the requests made never carry
\* more operations than the input has, whatever was reported unprocessed.
C7_NoRetry ==
    /\ SeqToBag(SentOps) \sqsubseteq SeqToBag(ExpectedOps)
    /\ Len(SentOps) <= InputCount
    /\ outcome = "Returned" =>
          /\ SeqToBag(SentOps) = SeqToBag(ExpectedOps)
          /\ Len(SentOps) = InputCount

C7_Witness ==
    /\ outcome = "Returned"
    /\ result # <<>>
    /\ HonestBackend
    /\ InputCount = 26
    /\ Len(SentOps) = 26

\* C9 (state part): at most one RPC is in flight; a request is in flight
\* exactly while the call awaits it; every earlier request has been answered
\* and its named operations appended before the next is issued.
Sequential ==
    /\ Len(inflight) <= 1
    /\ (pc = "await") = (inflight # <<>>)
    /\ failed = 0 => Len(sent) = Len(responses) + Len(inflight)
    /\ pc \in {"loop", "await"} => vector = NamedUpTo[Len(responses)]

\* C9: chunk RPCs are strictly sequential, and the call ends once every RPC
\* has been answered (it returns unless an RPC failed).
C9_SequentialAndTerminates ==
    /\ []Sequential
    /\ <>(outcome = "Returned" \/ failed # 0)

C9_Witness ==
    /\ pc = "await"
    /\ Len(sent) = 2
    /\ Len(responses) = 1
    /\ vector # <<>>

\* C10: every request submitted names exactly the table argument and carries
\* between 1 and 25 operations; with no operations at all no request is ever
\* submitted and the returned list is empty.
C10_NonEmptySingleTable ==
    /\ \A k \in DOMAIN sent :
          /\ DOMAIN sent[k].request_items = {table}
          /\ 0 < Len(OpsOf(sent[k]))
          /\ Len(OpsOf(sent[k])) <= 25
    /\ InputCount = 0 => (sent = <<>> /\ result = <<>>)

C10_Witness ==
    /\ outcome = "Returned"
    /\ write_items = <<>>
    /\ delete_items = <<(<<>>)>>
    /\ sent = <<>>
    /\ result = <<>>

\* C6: get_item ends in NotFound when the backend returns no item and in
\* DecodeError when the item lacks a required field or has a mismatching tag;
\* neither is a panic.
C6_NotFoundAndDecodeError ==
    gresponse = "Ok" =>
        /\ goutcome # "Panic"
        /\ gstored = <<>> => goutcome = "NotFound"
        /\ (gstored # <<>> /\ ~DecodeOk(gstored[1])) => goutcome = "DecodeError"

\* C8: after set_kv(map, key, val) the key is bound to the string variant of
\* val with every other variant unset, every other field is as before, no
\* field is gone, and the same call again leaves the map as it is.
C8_SetKvFrame ==
    calls # <<>> =>
        LET last == calls[Len(calls)] IN
        /\ item[last.key] =
              [b |-> <<>>, bool |-> <<>>, bs |-> <<>>, l |-> <<>>, m |-> <<>>,
               n |-> <<>>, ns |-> <<>>, null |-> <<>>, s |-> <<last.val>>, ss |-> <<>>]
        /\ DOMAIN item = DOMAIN last.before \cup {last.key}
        /\ \A k \in DOMAIN last.before \ {last.key} : item[k] = last.before[k]
        /\ set_kv(item, last.key, last.val) = item

C8_Witness ==
    /\ Len(calls) = 1
    /\ calls[1].key \in DOMAIN calls[1].before
    /\ calls[1].before[calls[1].key].n # <<>>
    /\ DOMAIN item = KvKeys
    /\ item[calls[1].key].s = <<calls[1].val>>

----------------------------------------------------------------------------
Init == InitBatchWrite /\ IdleGetItem /\ IdleSetKv

Next == NextBatchWrite

Spec == Init /\ [][Next]_vars

(* The executor polls the batch_write_items future until it completes and  *)
(* the client answers every RPC it is sent.                                *)
FairSpec == Spec /\ WF_vars(Next)

InitGet == IdleBatchWrite /\ InitGetItem /\ IdleSetKv

SpecGetItem == InitGet /\ [][NextGetItem]_vars

InitKv == IdleBatchWrite /\ IdleGetItem /\ InitSetKv

SpecSetKv == InitKv /\ [][SetKv]_vars

====
